---- MODULE Spec2Model ----
(***************************************************************************)
(* Model of src/fixed_income_monitor.py: the valuation -> risk metrics ->  *)
(* aggregation -> compliance pipeline, run top to bottom as the script     *)
(* does.                                                                   *)
(*                                                                         *)
(* Numbers are fixed-point integers:                                       *)
(*   money                         cents            (1e-2)                 *)
(*   coupon_rate, ytm              basis points     (1e-4)                 *)
(*   years_to_maturity             hundredths       (1e-2)                 *)
(*   macaulay/modified duration    1e-4 years                              *)
(*   weight, allocation            1e-4                                    *)
(*   portfolio_duration/ytm/coupon 1e-8  (a 1e-4 metric times a weight)    *)
(*   dv01                          1e-10 (cents * 1e-4 * 0.0001)           *)
(*   mandate limits                1e-4 of their own unit                  *)
(* Every round() of the script is a round-half-to-even of the exact        *)
(* quotient.  A sector label is represented by its rank in the label       *)
(* order groupby() sorts by.  The status strings are written without       *)
(* their leading symbol.                                                   *)
(***************************************************************************)
EXTENDS Integers, Sequences, FiniteSets, TLC

VARIABLES bonds, MANDATE_LIMITS, pc, error, df, metrics,
          sector_allocation, credit_allocation, flags, report

vars == <<bonds, MANDATE_LIMITS, pc, error, df, metrics,
          sector_allocation, credit_allocation, flags, report>>

--------------------------------------------------------------------------
(* Bounds of the model. *)

MaxPos == 2
MaxQty == 1
MaxWide == 12
MaxDaysPast == 800
MaxDaysAhead == 1500

--------------------------------------------------------------------------
(* Arithmetic. *)

\* 0/0 of line 96 and line 162: the float NaN, kept apart from every number.
NaN == -999999999

IsNaN(x) == x = NaN

RECURSIVE Pow(_, _)
Pow(b, e) == IF e <= 0 THEN 1 ELSE b * Pow(b, e - 1)

RECURSIVE Gcd(_, _)
Gcd(a, b) == IF b = 0 THEN a ELSE Gcd(b, a % b)

RECURSIVE SumTo(_, _)
\* f[1] + ... + f[n]
SumTo(f, n) == IF n = 0 THEN 0 ELSE f[n] + SumTo(f, n - 1)

RECURSIVE LongDiv(_, _, _, _)
\* digit by digit: <<floor(num * 10^digits / den), remainder>>
LongDiv(q, r, den, digits) ==
    IF digits = 0 THEN <<q, r>>
    ELSE LongDiv(q * 10 + (r * 10) \div den, (r * 10) % den, den, digits - 1)

\* round(num / den, digits) in units of 10^-digits, ties to even; den > 0
RoundHalfEven(num, den, digits) ==
    LET a  == IF num < 0 THEN 0 - num ELSE num
        qr == LongDiv(a \div den, a % den, den, digits)
        q  == qr[1]
        r  == qr[2]
        m  == IF 2 * r > den \/ (2 * r = den /\ q % 2 = 1) THEN q + 1 ELSE q
    IN  IF num < 0 THEN 0 - m ELSE m

\* pandas Series.sum(): NaN entries are skipped
SumSkipNa(s) ==
    SumTo([i \in 1..Len(s) |-> IF IsNaN(s[i]) THEN 0 ELSE s[i]], Len(s))

\* elementwise product of two columns; NaN propagates
MulColumns(a, b) ==
    [i \in 1..Len(a) |-> IF IsNaN(a[i]) \/ IsNaN(b[i]) THEN NaN ELSE a[i] * b[i]]

\* the quotient cut to 4 decimals instead of rounded
DivTrunc4(num, total) ==
    IF total = 0 THEN NaN ELSE LongDiv(num \div total, num % total, total, 4)[1]

\* numerator / total_portfolio_value rounded to 4 decimals (lines 96, 162-163)
DivRound4(num, total) ==
    IF total = 0 THEN NaN ELSE RoundHalfEven(num, total, 4)

\* 1 + ytm as a reduced fraction <<P, Q>>
Growth(ytm) ==
    LET g == Gcd(10000 + ytm, 10000)
    IN  <<(10000 + ytm) \div g, 10000 \div g>>

--------------------------------------------------------------------------
(* Per-bond computations. *)

\* line 75: round((m - VALUATION_DATE).days / 365.25, 2); days * 4 / 1461
YearsToMaturity(days) == RoundHalfEven(days * 4, 1461, 2)

\* int(years): truncation toward zero
IntYears(years) ==
    IF years >= 0 THEN years \div 100 ELSE 0 - ((0 - years) \div 100)

\* the coupon dates counted as the duration schedule counts its periods
CouponPeriodsAsDuration(years) ==
    LET r == RoundHalfEven(years, 100, 0) IN IF r > 1 THEN r ELSE 1

\* the coupon dates with the last, partial year counted as well
CouponPeriodsCeil(years) ==
    IF years <= 0 THEN 0
    ELSE IF years % 100 = 0 THEN years \div 100 ELSE years \div 100 + 1

\* len(range(1, int(years) + 1)): the coupon dates of line 84
CouponPeriods(years) == IF IntYears(years) > 0 THEN IntYears(years) ELSE 0

\* lines 81-87.  (1 + ytm) ** years is exact here for the bonds the model
\* draws: ytm = 0 (the factor is 1) or a whole number of years.
PricePerBond(b, years) ==
    LET P    == Growth(b.ytm)[1]
        Q    == Growth(b.ytm)[2]
        Y    == IF P = Q THEN 0 ELSE years \div 100
        n    == CouponPeriods(years)
        cpn  == b.coupon_rate * b.face_value
        num  == SumTo([t \in 1..n |-> cpn * Pow(Q, t) * Pow(P, Y - t)], n)
                  + b.face_value * 10000 * Pow(Q, Y)
    IN  RoundHalfEven(num, Pow(P, Y) * 10000, 2)

\* line 116
DurationPeriods(years) ==
    LET r == RoundHalfEven(years, 100, 0) IN IF r > 1 THEN r ELSE 1

\* lines 115-128
macaulay_duration(coupon_rate, face_value, ytm, years_to_maturity) ==
    LET periods == DurationPeriods(years_to_maturity)
        coupon  == coupon_rate * face_value
        P       == Growth(ytm)[1]
        Q       == Growth(ytm)[2]
        cash_flows == [t \in 1..periods |->
                         IF t = periods THEN coupon + face_value * 10000
                                        ELSE coupon]
        pv_cash_flows == [t \in 1..periods |->
                            cash_flows[t] * Pow(Q, t) * Pow(P, periods - t)]
        total_pv == SumTo(pv_cash_flows, periods)
        weighted == SumTo([t \in 1..periods |-> t * pv_cash_flows[t]], periods)
    IN  RoundHalfEven(weighted, total_pv, 4)

\* lines 130-131
modified_duration(mac_dur, ytm) ==
    RoundHalfEven(mac_dur * Growth(ytm)[2], Growth(ytm)[1], 0)

--------------------------------------------------------------------------
(* Inputs. *)

\* The holdings the portfolios are drawn from (the shape of lines 11-67):
\* maturity is the number of days from the valuation date to the maturity
\* date, sector the label's rank.
BondKinds ==
    { [face_value |-> 1, coupon_rate |-> 0,   maturity |-> 731,  ytm |-> 0,
       credit_rating |-> "AAA", sector |-> 2],
      [face_value |-> 1, coupon_rate |-> 500, maturity |-> 1461, ytm |-> 1000,
       credit_rating |-> "A",   sector |-> 1],
      [face_value |-> 1, coupon_rate |-> 0,   maturity |-> 913,  ytm |-> 0,
       credit_rating |-> "AA",  sector |-> 3],
      [face_value |-> 1, coupon_rate |-> 0,   maturity |-> 2192, ytm |-> 0,
       credit_rating |-> "AAA", sector |-> 2],
      [face_value |-> 1, coupon_rate |-> 500, maturity |-> 183,  ytm |-> 0,
       credit_rating |-> "AA",  sector |-> 1] }

Holding(kind, qty, id, sec) ==
    [bond_id |-> id, face_value |-> kind.face_value,
     coupon_rate |-> kind.coupon_rate, maturity |-> kind.maturity,
     ytm |-> kind.ytm, credit_rating |-> kind.credit_rating,
     sector |-> sec, quantity |-> qty]

Slots == BondKinds \X (0..MaxQty)

\* every ordered list of at most MaxPos holdings
Portfolios ==
    UNION { { [i \in 1..n |-> Holding(s[i][1], s[i][2], i, s[i][1].sector)] :
              s \in [1..n -> Slots] } : n \in 0..MaxPos }

\* many small holdings of one bond and one large one, all in one sector or
\* each in a sector of its own
WideKind == [face_value |-> 1, coupon_rate |-> 0, maturity |-> 731, ytm |-> 0,
             credit_rating |-> "AAA", sector |-> 2]

BigQuantities == {2, 396}

WidePortfolios ==
    { [i \in 1..(k + 1) |->
         Holding(WideKind, IF i = k + 1 THEN big ELSE 1, i,
                 IF spread THEN i ELSE WideKind.sector)] :
      k \in 0..MaxWide, big \in BigQuantities, spread \in BOOLEAN }

LimitKeys ==
    {"max_portfolio_duration", "min_portfolio_duration",
     "max_single_position_weight", "max_sector_concentration",
     "min_credit_quality_aaa_aa", "max_dv01_per_position", "min_ytm"}

\* lines 216-224
DefaultLimits ==
    [max_portfolio_duration     |-> 50000,
     min_portfolio_duration     |-> 20000,
     max_single_position_weight |-> 3500,
     max_sector_concentration   |-> 5000,
     min_credit_quality_aaa_aa  |-> 6000,
     max_dv01_per_position      |-> 60000000,
     min_ytm                    |-> 300]

\* other limit values: thresholds that the drawn portfolios meet exactly
LooseLimits ==
    [max_portfolio_duration     |-> 60000,
     min_portfolio_duration     |-> 20000,
     max_single_position_weight |-> 5000,
     max_sector_concentration   |-> 10000,
     min_credit_quality_aaa_aa  |-> 5000,
     max_dv01_per_position      |-> 2,
     min_ytm                    |-> 0]

\* a minimum above the maximum
InvertedLimits ==
    [DefaultLimits EXCEPT !.max_portfolio_duration = 20000,
                          !.min_portfolio_duration = 50000]

Without(limits, key) == [k \in (DOMAIN limits) \ {key} |-> limits[k]]

LimitConfigs ==
    {DefaultLimits, LooseLimits, InvertedLimits}
      \cup { Without(DefaultLimits, key) : key \in LimitKeys }

NoTable == <<>>
NoColumns == [c \in {} |-> <<>>]
NoMetrics == [m \in {} |-> 0]
NoReport == [m \in {} |-> 0]

Init ==
    /\ \/ bonds \in Portfolios /\ MANDATE_LIMITS \in LimitConfigs
       \/ bonds \in WidePortfolios /\ MANDATE_LIMITS = DefaultLimits
    /\ pc = "build"
    /\ error = <<>>
    /\ df = NoColumns
    /\ metrics = NoMetrics
    /\ sector_allocation = NoTable
    /\ credit_allocation = NoTable
    /\ flags = <<>>
    /\ report = NoReport

--------------------------------------------------------------------------
(* Tables. *)

AddColumn(d, name, col) ==
    [c \in (DOMAIN d) \cup {name} |-> IF c = name THEN col ELSE d[c]]

AddMetric(m, name, value) ==
    [c \in (DOMAIN m) \cup {name} |-> IF c = name THEN value ELSE m[c]]

Rows == 1..Len(bonds)

Column(field) == [i \in Rows |-> bonds[i][field]]

RECURSIVE KeysAscending(_)
\* groupby() lists its groups in ascending key order
KeysAscending(S) ==
    IF S = {} THEN <<>>
    ELSE LET m == CHOOSE x \in S : \A y \in S : x <= y
         IN  <<m>> \o KeysAscending(S \ {m})

\* sort_values(ascending=False) places a before b: NaN goes last
Ahead(a, b) == ~IsNaN(a) /\ (IsNaN(b) \/ a > b)

RECURSIVE InsertRow(_, _)
InsertRow(row, s) ==
    IF s = <<>> THEN <<row>>
    ELSE IF Ahead(row.allocation, Head(s).allocation) THEN <<row>> \o s
    ELSE <<Head(s)>> \o InsertRow(row, Tail(s))

\* the rows left in group order
SortDescendingKeyOrder(rows) == rows

RECURSIVE SortDescending(_)
\* sort_values("allocation", ascending=False).  Rows of equal allocation are
\* left in group order, the order a stable sort gives.
SortDescending(rows) ==
    IF rows = <<>> THEN <<>>
    ELSE InsertRow(rows[Len(rows)],
                   SortDescending(SubSeq(rows, 1, Len(rows) - 1)))

\* groupby(key)["market_value"].sum(): one row per key, in key order
GroupSumsFirstOnly(keys, values) ==
    LET ks == KeysAscending({keys[i] : i \in DOMAIN keys})
    IN  [j \in 1..Len(ks) |->
           [key |-> ks[j],
            sum |-> values[CHOOSE i \in DOMAIN keys :
                              /\ keys[i] = ks[j]
                              /\ \A h \in DOMAIN keys : keys[h] = ks[j] => i <= h]]]

GroupSums(keys, values) ==
    LET ks == KeysAscending({keys[i] : i \in DOMAIN keys})
    IN  [j \in 1..Len(ks) |->
           [key |-> ks[j],
            sum |-> SumTo([i \in DOMAIN keys |->
                             IF keys[i] = ks[j] THEN values[i] ELSE 0],
                          Len(keys))]]

\* lines 159-167 and 171-179
AllocationTable(keys, values, total) ==
    LET g == GroupSums(keys, values)
    IN  SortDescending([j \in 1..Len(g) |->
                          [key |-> g[j].key,
                           allocation |-> DivRound4(g[j].sum, total)]])

\* the order of the rating labels as strings
CreditRank(r) == CASE r = "A" -> 1 [] r = "AA" -> 2 [] r = "AAA" -> 3

CreditLabel(k) == CASE k = 1 -> "A" [] k = 2 -> "AA" [] k = 3 -> "AAA"

--------------------------------------------------------------------------
(* Valuation, risk metrics and aggregation: lines 71-179. *)

Raise(kind, key) ==
    /\ pc' = "failed"
    /\ error' = <<kind, key>>

\* lines 71-76: with no holdings the frame has no "maturity" column
BuildDataFrame ==
    /\ pc = "build"
    /\ IF bonds = <<>>
       THEN /\ Raise("KeyError", "maturity")
            /\ UNCHANGED df
       ELSE /\ df' = [c \in {"bond_id", "face_value", "coupon_rate", "maturity",
                             "ytm", "credit_rating", "sector", "quantity",
                             "years_to_maturity"} |->
                        IF c = "years_to_maturity"
                        THEN [i \in Rows |-> YearsToMaturity(bonds[i].maturity)]
                        ELSE Column(c)]
            /\ pc' = "price"
            /\ UNCHANGED error
    /\ UNCHANGED <<bonds, MANDATE_LIMITS, metrics, sector_allocation,
                   credit_allocation, flags, report>>

\* lines 80-89
PricePositions ==
    /\ pc = "price"
    /\ df' = AddColumn(df, "price_per_bond",
                 [i \in Rows |-> PricePerBond(bonds[i], df["years_to_maturity"][i])])
    /\ pc' = "weights"
    /\ UNCHANGED <<bonds, MANDATE_LIMITS, error, metrics, sector_allocation,
                   credit_allocation, flags, report>>

\* lines 92-96
ComputeWeights ==
    /\ pc = "weights"
    /\ LET market_value == [i \in Rows |->
                              df["price_per_bond"][i] * df["quantity"][i]]
           total_portfolio_value == SumTo(market_value, Len(market_value))
       IN  /\ df' = AddColumn(AddColumn(df, "market_value", market_value),
                        "weight",
                        [i \in Rows |->
                           DivRound4(market_value[i], total_portfolio_value)])
           /\ metrics' = AddMetric(metrics, "total_portfolio_value",
                                   total_portfolio_value)
    /\ pc' = "durations"
    /\ UNCHANGED <<bonds, MANDATE_LIMITS, error, sector_allocation,
                   credit_allocation, flags, report>>

\* lines 133-142
ComputeDurations ==
    /\ pc = "durations"
    /\ LET mac == [i \in Rows |->
                     macaulay_duration(df["coupon_rate"][i], df["face_value"][i],
                                       df["ytm"][i], df["years_to_maturity"][i])]
       IN  df' = AddColumn(AddColumn(df, "macaulay_duration", mac),
                     "modified_duration",
                     [i \in Rows |-> modified_duration(mac[i], df["ytm"][i])])
    /\ pc' = "metrics"
    /\ UNCHANGED <<bonds, MANDATE_LIMITS, error, metrics, sector_allocation,
                   credit_allocation, flags, report>>

\* a weighted sum that takes market_value / total afresh, cut to 4 decimals
\* instead of the stored weight
WeightedMetricRecomputed(column) ==
    IF metrics["total_portfolio_value"] = 0 THEN 0
    ELSE SumTo([i \in Rows |->
                  df[column][i]
                    * LongDiv(0, df["market_value"][i],
                              metrics["total_portfolio_value"], 4)[1]],
               Len(bonds))

\* (df[column] * df["weight"]).sum()
WeightedMetric(column) == SumSkipNa(MulColumns(df[column], df["weight"]))

\* lines 146-148
ComputeWeightedMetrics ==
    /\ pc = "metrics"
    /\ metrics' = AddMetric(AddMetric(AddMetric(metrics,
                      "portfolio_duration", WeightedMetric("modified_duration")),
                      "portfolio_ytm", WeightedMetric("ytm")),
                      "portfolio_coupon", WeightedMetric("coupon_rate"))
    /\ pc' = "dv01"
    /\ UNCHANGED <<bonds, MANDATE_LIMITS, error, df, sector_allocation,
                   credit_allocation, flags, report>>

\* lines 154-155
ComputeDV01 ==
    /\ pc = "dv01"
    /\ LET dv01 == [i \in Rows |->
                      df["market_value"][i] * df["modified_duration"][i]]
       IN  /\ df' = AddColumn(df, "dv01", dv01)
           /\ metrics' = AddMetric(metrics, "portfolio_dv01",
                                   SumTo(dv01, Len(dv01)))
    /\ pc' = "sector"
    /\ UNCHANGED <<bonds, MANDATE_LIMITS, error, sector_allocation,
                   credit_allocation, flags, report>>

\* lines 159-167
ComputeSectorAllocation ==
    /\ pc = "sector"
    /\ LET t == AllocationTable(df["sector"], df["market_value"],
                                metrics["total_portfolio_value"])
       IN  sector_allocation' =
             [j \in 1..Len(t) |->
                [sector |-> t[j].key, allocation |-> t[j].allocation]]
    /\ pc' = "credit"
    /\ UNCHANGED <<bonds, MANDATE_LIMITS, error, df, metrics,
                   credit_allocation, flags, report>>

\* lines 171-179
ComputeCreditAllocation ==
    /\ pc = "credit"
    /\ LET t == AllocationTable([i \in Rows |-> CreditRank(df["credit_rating"][i])],
                                df["market_value"],
                                metrics["total_portfolio_value"])
       IN  credit_allocation' =
             [j \in 1..Len(t) |->
                [credit_rating |-> CreditLabel(t[j].key),
                 allocation |-> t[j].allocation]]
    /\ pc' = "check1"
    /\ UNCHANGED <<bonds, MANDATE_LIMITS, error, df, metrics,
                   sector_allocation, flags, report>>

--------------------------------------------------------------------------
(* Compliance checks: lines 216-327. *)

BREACH == "BREACH"
PASS == "PASS"

Finding(check, entity, status, detail) ==
    [check |-> check, entity |-> entity, status |-> status, detail |-> detail]

Has(key) == key \in DOMAIN MANDATE_LIMITS

\* the first key of keys that MANDATE_LIMITS[...] fails on, if any
RECURSIVE Missing(_)
Missing(keys) ==
    IF keys = <<>> THEN <<>>
    ELSE IF ~Has(Head(keys)) THEN <<Head(keys)>>
    ELSE Missing(Tail(keys))

\* float comparisons: every comparison with NaN is false
Gt(a, b) == ~IsNaN(a) /\ a > b
Lt(a, b) == ~IsNaN(a) /\ a < b

\* x > limit * unit, without forming the product
ExceedsScaled(x, limit, unit) ==
    \/ x \div unit > limit
    \/ x \div unit = limit /\ x % unit > 0

\* lines 230-247 with only the upper bound tested
DurationFindingMaxOnly(duration, limits) ==
    IF duration > limits["max_portfolio_duration"] * 10000
    THEN Finding("Portfolio Duration", 0, BREACH, "exceeds max")
    ELSE Finding("Portfolio Duration", 0, PASS, "within")

\* lines 230-247
DurationFinding(duration, limits) ==
    IF duration > limits["max_portfolio_duration"] * 10000
    THEN Finding("Portfolio Duration", 0, BREACH, "exceeds max")
    ELSE IF duration < limits["min_portfolio_duration"] * 10000
    THEN Finding("Portfolio Duration", 0, BREACH, "below min")
    ELSE Finding("Portfolio Duration", 0, PASS, "within")

\* the keys lines 230-247 look up, in the order they are looked up
DurationKeys(duration) ==
    IF Has("max_portfolio_duration")
       /\ duration > MANDATE_LIMITS["max_portfolio_duration"] * 10000
    THEN <<"max_portfolio_duration">>
    ELSE <<"max_portfolio_duration", "min_portfolio_duration">>

\* lines 252-263 with the limit itself counted as a breach
PositionFindingAtLimit(bond_id, weight, limit) ==
    IF ~IsNaN(weight) /\ weight >= limit
    THEN Finding("Position Concentration", bond_id, BREACH, "exceeds max")
    ELSE Finding("Position Concentration", bond_id, PASS, "within limit")

\* lines 252-263
PositionFinding(bond_id, weight, limit) ==
    IF Gt(weight, limit)
    THEN Finding("Position Concentration", bond_id, BREACH, "exceeds max")
    ELSE Finding("Position Concentration", bond_id, PASS, "within limit")

\* lines 268-279
SectorFinding(sector, allocation, limit) ==
    IF Gt(allocation, limit)
    THEN Finding("Sector Concentration", sector, BREACH, "exceeds max")
    ELSE Finding("Sector Concentration", sector, PASS, "within limit")

\* lines 285-296
CreditFinding(aaa_aa_weight, limit) ==
    IF Lt(aaa_aa_weight, limit)
    THEN Finding("Credit Quality (AAA+AA floor)", 0, BREACH, "below min")
    ELSE Finding("Credit Quality (AAA+AA floor)", 0, PASS, "above min")

\* lines 301-312 with a third status for a DV01 exactly at the limit
DV01FindingWatch(bond_id, dv01, limit) ==
    IF ExceedsScaled(dv01, limit, 1000000)
    THEN Finding("DV01 Limit", bond_id, BREACH, "exceeds max")
    ELSE IF dv01 \div 1000000 = limit /\ dv01 % 1000000 = 0
    THEN Finding("DV01 Limit", bond_id, "WATCH", "at limit")
    ELSE Finding("DV01 Limit", bond_id, PASS, "within limit")

\* lines 301-312
DV01Finding(bond_id, dv01, limit) ==
    IF ExceedsScaled(dv01, limit, 1000000)
    THEN Finding("DV01 Limit", bond_id, BREACH, "exceeds max")
    ELSE Finding("DV01 Limit", bond_id, PASS, "within limit")

\* lines 316-327
YtmFinding(portfolio_ytm, limit) ==
    IF portfolio_ytm < limit * 10000
    THEN Finding("Minimum Portfolio YTM", 0, BREACH, "below floor")
    ELSE Finding("Minimum Portfolio YTM", 0, PASS, "above floor")

\* one check: a KeyError on the first missing key it looks up, else its
\* findings appended to flags
RunCheck(keys, base, findings, next) ==
    IF Missing(keys) # <<>>
    THEN /\ Raise("KeyError", Missing(keys)[1])
         /\ flags' = base
    ELSE /\ flags' = base \o findings
         /\ pc' = next
         /\ UNCHANGED error

\* lines 226-247
Check1 ==
    /\ pc = "check1"
    /\ RunCheck(DurationKeys(metrics["portfolio_duration"]), <<>>,
                <<DurationFinding(metrics["portfolio_duration"], MANDATE_LIMITS)>>,
                "check2")
    /\ UNCHANGED <<bonds, MANDATE_LIMITS, df, metrics, sector_allocation,
                   credit_allocation, report>>

\* lines 251-263
Check2 ==
    /\ pc = "check2"
    /\ RunCheck(<<"max_single_position_weight">>, flags,
                [i \in Rows |->
                   PositionFinding(df["bond_id"][i], df["weight"][i],
                                   MANDATE_LIMITS["max_single_position_weight"])],
                "check3")
    /\ UNCHANGED <<bonds, MANDATE_LIMITS, df, metrics, sector_allocation,
                   credit_allocation, report>>

\* lines 267-279
Check3 ==
    /\ pc = "check3"
    /\ RunCheck(<<"max_sector_concentration">>, flags,
                [j \in 1..Len(sector_allocation) |->
                   SectorFinding(sector_allocation[j].sector,
                                 sector_allocation[j].allocation,
                                 MANDATE_LIMITS["max_sector_concentration"])],
                "check4")
    /\ UNCHANGED <<bonds, MANDATE_LIMITS, df, metrics, sector_allocation,
                   credit_allocation, report>>

\* lines 283-296
Check4 ==
    /\ pc = "check4"
    /\ LET aaa_aa_weight ==
             SumSkipNa([i \in Rows |->
                          IF df["credit_rating"][i] \in {"AAA", "AA"}
                          THEN df["weight"][i] ELSE 0])
       IN  /\ metrics' = AddMetric(metrics, "aaa_aa_weight", aaa_aa_weight)
           /\ RunCheck(<<"min_credit_quality_aaa_aa">>, flags,
                       <<CreditFinding(aaa_aa_weight,
                                       MANDATE_LIMITS["min_credit_quality_aaa_aa"])>>,
                       "check5")
    /\ UNCHANGED <<bonds, MANDATE_LIMITS, df, sector_allocation,
                   credit_allocation, report>>

\* lines 300-312
Check5 ==
    /\ pc = "check5"
    /\ RunCheck(<<"max_dv01_per_position">>, flags,
                [i \in Rows |->
                   DV01Finding(df["bond_id"][i], df["dv01"][i],
                               MANDATE_LIMITS["max_dv01_per_position"])],
                "check6")
    /\ UNCHANGED <<bonds, MANDATE_LIMITS, df, metrics, sector_allocation,
                   credit_allocation, report>>

\* lines 316-327
Check6 ==
    /\ pc = "check6"
    /\ RunCheck(<<"min_ytm">>, flags,
                <<YtmFinding(metrics["portfolio_ytm"], MANDATE_LIMITS["min_ytm"])>>,
                "report")
    /\ UNCHANGED <<bonds, MANDATE_LIMITS, df, metrics, sector_allocation,
                   credit_allocation, report>>

\* len(flags_df[flags_df["status"] == status])
CountStatus(status) == Cardinality({i \in DOMAIN flags : flags[i].status = status})

\* lines 331-340
Report ==
    /\ pc = "report"
    /\ report' = [total |-> Len(flags), breaches |-> CountStatus(BREACH),
                  passes |-> CountStatus(PASS)]
    /\ pc' = "done"
    /\ UNCHANGED <<bonds, MANDATE_LIMITS, error, df, metrics, sector_allocation,
                   credit_allocation, flags>>

Next ==
    \/ BuildDataFrame
    \/ PricePositions
    \/ ComputeWeights
    \/ ComputeDurations
    \/ ComputeWeightedMetrics
    \/ ComputeDV01
    \/ ComputeSectorAllocation
    \/ ComputeCreditAllocation
    \/ Check1
    \/ Check2
    \/ Check3
    \/ Check4
    \/ Check5
    \/ Check6
    \/ Report

Spec == Init /\ [][Next]_vars

--------------------------------------------------------------------------
(* Where a run stands. *)

Steps ==
    <<"build", "price", "weights", "durations", "metrics", "dv01", "sector",
      "credit", "check1", "check2", "check3", "check4", "check5", "check6",
      "report", "done">>

\* the step a failed run failed in
FailedAt ==
    CASE error[2] = "maturity" -> "build"
      [] error[2] \in {"max_portfolio_duration", "min_portfolio_duration"} -> "check1"
      [] error[2] = "max_single_position_weight" -> "check2"
      [] error[2] = "max_sector_concentration" -> "check3"
      [] error[2] = "min_credit_quality_aaa_aa" -> "check4"
      [] error[2] = "max_dv01_per_position" -> "check5"
      [] error[2] = "min_ytm" -> "check6"

StepIndex(step) == CHOOSE i \in DOMAIN Steps : Steps[i] = step

\* the step has run to its end
Past(step) ==
    StepIndex(IF pc = "failed" THEN FailedAt ELSE pc) > StepIndex(step)

Abs(x) == IF x < 0 THEN 0 - x ELSE x

Total == metrics["total_portfolio_value"]

InputSectors == {bonds[i].sector : i \in Rows}

FindingsOf(check) == {i \in DOMAIN flags : flags[i].check = check}

--------------------------------------------------------------------------
(* Claims. *)

\* C1: when the checks have run, the findings are, in this order: one
\* Portfolio Duration finding, one Position Concentration finding per
\* position in input order, one Sector Concentration finding per row of the
\* sector table in the table's order, which is descending in allocation, one
\* Credit Quality finding, one DV01 Limit finding per position in input
\* order, one Minimum Portfolio YTM finding: 3 + 2 * positions + distinct
\* sectors findings in all.
FindingOrder ==
    Past("check6") =>
      LET n == Len(bonds)
          s == Cardinality(InputSectors)
      IN  /\ Len(flags) = 3 + 2 * n + s
          /\ Len(sector_allocation) = s
          /\ flags[1].check = "Portfolio Duration"
          /\ \A i \in 1..n :
               /\ flags[1 + i].check = "Position Concentration"
               /\ flags[1 + i].entity = bonds[i].bond_id
          /\ \A j \in 1..s :
               /\ flags[1 + n + j].check = "Sector Concentration"
               /\ flags[1 + n + j].entity = sector_allocation[j].sector
          /\ \A j, k \in 1..s :
               j < k =>
                 \/ sector_allocation[k].allocation = NaN
                 \/ /\ sector_allocation[j].allocation # NaN
                    /\ sector_allocation[j].allocation
                         >= sector_allocation[k].allocation
          /\ flags[2 + n + s].check = "Credit Quality (AAA+AA floor)"
          /\ \A i \in 1..n :
               /\ flags[2 + n + s + i].check = "DV01 Limit"
               /\ flags[2 + n + s + i].entity = bonds[i].bond_id
          /\ flags[3 + 2 * n + s].check = "Minimum Portfolio YTM"

\* C1 witness: a finished run over two positions in two sectors whose sector
\* findings come in neither the input order nor the label order.
FindingOrderWitness ==
    /\ pc = "done"
    /\ Len(bonds) = 2
    /\ Len(sector_allocation) = 2
    /\ sector_allocation[1].sector > sector_allocation[2].sector
    /\ bonds[1].sector = sector_allocation[2].sector
    /\ flags[4].entity = sector_allocation[1].sector
    /\ flags[5].entity = sector_allocation[2].sector

\* C2: every finding's status is BREACH or PASS, and in the report of a
\* finished run the breach count plus the pass count is the number of findings.
CountsAddUp ==
    /\ \A i \in DOMAIN flags : flags[i].status \in {"BREACH", "PASS"}
    /\ pc = "done" =>
         /\ report.total = Len(flags)
         /\ report.breaches + report.passes = report.total

\* C2 witness: a finished run that reports both breaches and passes.
CountsAddUpWitness ==
    /\ pc = "done"
    /\ report.breaches > 0
    /\ report.passes > 0
    /\ report.total = 3 + 2 * Len(bonds) + Cardinality(InputSectors)

\* C3 as stated: with a positive total, the stored weights sum to 1.0 within
\* 0.0005, whatever the number of positions.
WeightSumWithinFixedTolerance ==
    (Past("weights") /\ Total > 0) =>
      Abs(SumTo(df["weight"], Len(bonds)) - 10000) <= 5

\* C3 amended: with a positive total, every stored weight is the quotient
\* rounded to 4 decimals, so the weights sum to 1.0 within 0.00005 times the
\* number of positions.
WeightSumWithinRoundingDrift ==
    (Past("weights") /\ Total > 0) =>
      2 * Abs(SumTo(df["weight"], Len(bonds)) - 10000) <= Len(bonds)

\* C3 witness: thirteen positions with a positive total whose stored weights
\* sum to 1.0006.
WeightSumWitness ==
    /\ Past("weights")
    /\ Total > 0
    /\ Len(bonds) = 13
    /\ SumTo(df["weight"], Len(bonds)) = 10006

\* C4 as stated: with a positive total, the sector table has one row per
\* input sector and its allocations sum to 1.0 within 0.0005.
SectorTableWithinFixedTolerance ==
    (Past("sector") /\ Total > 0) =>
      /\ {sector_allocation[j].sector : j \in DOMAIN sector_allocation}
           = InputSectors
      /\ Len(sector_allocation) = Cardinality(InputSectors)
      /\ Abs(SumTo([j \in DOMAIN sector_allocation |->
                      sector_allocation[j].allocation],
                   Len(sector_allocation)) - 10000) <= 5

\* C4 amended: with a positive total, the sector table has exactly one row
\* per input sector, each row holds the market value of all the positions of
\* its sector over the total, rounded to 4 decimals, and the allocations sum
\* to 1.0 within 0.00005 times the number of rows.
SectorTableCoversPositions ==
    (Past("sector") /\ Total > 0) =>
      /\ {sector_allocation[j].sector : j \in DOMAIN sector_allocation}
           = InputSectors
      /\ Len(sector_allocation) = Cardinality(InputSectors)
      /\ \A j \in DOMAIN sector_allocation :
           sector_allocation[j].allocation =
             RoundHalfEven(
               SumTo([i \in Rows |->
                        IF bonds[i].sector = sector_allocation[j].sector
                        THEN df["market_value"][i] ELSE 0], Len(bonds)),
               Total, 4)
      /\ 2 * Abs(SumTo([j \in DOMAIN sector_allocation |->
                          sector_allocation[j].allocation],
                       Len(sector_allocation)) - 10000)
           <= Len(sector_allocation)

\* C4 witness: a sector table of thirteen rows, over a positive total, whose
\* allocations sum to 1.0006.
SectorTableWitness ==
    /\ Past("sector")
    /\ Total > 0
    /\ Len(sector_allocation) = 13
    /\ SumTo([j \in DOMAIN sector_allocation |->
                sector_allocation[j].allocation], 13) = 10006

\* C5: once the position check has run, every position has exactly one
\* Position Concentration finding, and it is BREACH exactly when the
\* position's stored weight is strictly above max_single_position_weight.
PositionConcentration ==
    Past("check2") =>
      \A i \in Rows :
        LET mine == {k \in FindingsOf("Position Concentration") :
                       flags[k].entity = bonds[i].bond_id}
        IN  /\ Cardinality(mine) = 1
            /\ \A k \in mine :
                 flags[k].status = "BREACH"
                   <=> /\ df["weight"][i] # NaN
                       /\ df["weight"][i]
                            > MANDATE_LIMITS["max_single_position_weight"]

\* C5 witness: one position at weight 0.40 against the limit 0.35, the others
\* within it, and exactly one Position Concentration breach, naming it.
PositionConcentrationWitness ==
    /\ Past("check2")
    /\ Len(bonds) = 4
    /\ MANDATE_LIMITS["max_single_position_weight"] = 3500
    /\ df["weight"] = <<2000, 2000, 2000, 4000>>
    /\ {flags[k].entity : k \in {h \in FindingsOf("Position Concentration") :
                                   flags[h].status = "BREACH"}}
         = {bonds[4].bond_id}

\* C6: once the duration check has run there is exactly one Portfolio
\* Duration finding; it is BREACH when the portfolio duration is above the
\* maximum or below the minimum and PASS otherwise, the bounds themselves
\* passing, and it reports the excess over the maximum whenever there is one.
DurationRule ==
    Past("check1") =>
      LET d == metrics["portfolio_duration"]
      IN  /\ Cardinality(FindingsOf("Portfolio Duration")) = 1
          /\ flags[1].check = "Portfolio Duration"
          /\ (Has("max_portfolio_duration") /\ Has("min_portfolio_duration")) =>
               LET above == d > MANDATE_LIMITS["max_portfolio_duration"] * 10000
                   below == d < MANDATE_LIMITS["min_portfolio_duration"] * 10000
               IN  /\ flags[1].status = "BREACH" <=> (above \/ below)
                   /\ flags[1].status = "PASS" <=> ~(above \/ below)
                   /\ flags[1].detail = "exceeds max" <=> above
                   /\ flags[1].detail = "below min" <=> (below /\ ~above)

\* C6 witness: a duration above the maximum and below the minimum at once,
\* reported by a single breach.
DurationRuleWitness ==
    /\ Past("check1")
    /\ Has("max_portfolio_duration") /\ Has("min_portfolio_duration")
    /\ metrics["portfolio_duration"]
         > MANDATE_LIMITS["max_portfolio_duration"] * 10000
    /\ metrics["portfolio_duration"]
         < MANDATE_LIMITS["min_portfolio_duration"] * 10000
    /\ Cardinality(FindingsOf("Portfolio Duration")) = 1
    /\ flags[1].status = "BREACH"

\* C7 as stated: a run whose total portfolio value is zero or negative fails
\* with an AggregationError and has no weights, no allocation tables, no
\* weighted metrics and no findings.
NonPositiveTotalIsRefused ==
    (Past("weights") /\ Total <= 0) =>
      /\ pc = "failed"
      /\ error[1] = "AggregationError"
      /\ "weight" \notin DOMAIN df
      /\ DOMAIN metrics \subseteq {"total_portfolio_value"}
      /\ sector_allocation = <<>>
      /\ credit_allocation = <<>>
      /\ flags = <<>>

\* C8 as stated: a run that fails has an empty finding list.
NoPartialFindings ==
    pc = "failed" => flags = <<>>

\* C9 as stated: once the durations are computed, the Macaulay duration of
\* every zero-coupon bond with a positive face value, a yield above -100% and
\* a positive time to maturity is its years to maturity.
ZeroCouponDurationIsMaturity ==
    Past("durations") =>
      \A i \in Rows :
        (/\ df["coupon_rate"][i] = 0
         /\ df["face_value"][i] > 0
         /\ df["ytm"][i] > -10000
         /\ df["years_to_maturity"][i] > 0) =>
          df["macaulay_duration"][i] = df["years_to_maturity"][i] * 100

\* C10: once the weighted metrics are computed, the portfolio duration, yield
\* and coupon are each the sum over the positions of the metric times the
\* weight stored for the position, the one the position check compares.
WeightedSumsUseStoredWeight ==
    Past("metrics") =>
      LET stored(column) ==
            SumTo([i \in Rows |->
                     IF df["weight"][i] = NaN THEN 0
                     ELSE df[column][i] * df["weight"][i]], Len(bonds))
      IN  /\ metrics["portfolio_duration"] = stored("modified_duration")
          /\ metrics["portfolio_ytm"] = stored("ytm")
          /\ metrics["portfolio_coupon"] = stored("coupon_rate")

\* C10 witness: weighted metrics computed over a position whose stored weight
\* was rounded up from its market value over the total, with a duration, a
\* yield and a coupon to weigh.
WeightedSumsWitness ==
    /\ Past("metrics")
    /\ Total > 0
    /\ \E i \in Rows :
         /\ df["weight"][i] * Total > df["market_value"][i] * 10000
         /\ df["modified_duration"][i] > 0
    /\ metrics["portfolio_ytm"] > 0
    /\ metrics["portfolio_coupon"] > 0

--------------------------------------------------------------------------
(* Period counts: single holdings over a range of maturity dates. *)

\* a 5% bond at a zero yield maturing on any day from MaxDaysPast days
\* before the valuation date to MaxDaysAhead days after it, and a 5% bond at
\* a 10% yield maturing in 1, 2, 3 or 4 years
PeriodBonds ==
    { [face_value |-> 1, coupon_rate |-> 500, maturity |-> days, ytm |-> 0,
       credit_rating |-> "AA", sector |-> 1] :
      days \in (0 - MaxDaysPast)..MaxDaysAhead }
      \cup
    { [face_value |-> 1, coupon_rate |-> 500, maturity |-> days, ytm |-> 1000,
       credit_rating |-> "A", sector |-> 1] :
      days \in {365, 731, 1096, 1461} }

InitPeriods ==
    /\ bonds \in { <<Holding(kind, 1, 1, kind.sector)>> : kind \in PeriodBonds }
    /\ MANDATE_LIMITS = DefaultLimits
    /\ pc = "build"
    /\ error = <<>>
    /\ df = NoColumns
    /\ metrics = NoMetrics
    /\ sector_allocation = NoTable
    /\ credit_allocation = NoTable
    /\ flags = <<>>
    /\ report = NoReport

SpecPeriods == InitPeriods /\ [][Next]_vars

\* lines 81-87 for a schedule of n coupons: n coupons discounted at the whole
\* years 1..n and the principal discounted at the maturity, rounded to cents
PriceOfSchedule(b, years, n) ==
    LET P   == Growth(b.ytm)[1]
        Q   == Growth(b.ytm)[2]
        Y   == IF P = Q THEN 0 ELSE years \div 100
        cpn == b.coupon_rate * b.face_value
    IN  RoundHalfEven(
          SumTo([t \in 1..n |-> cpn * Pow(Q, t) * Pow(P, Y - t)], n)
            + b.face_value * 10000 * Pow(Q, Y),
          Pow(P, Y) * 10000, 2)

\* C11: once the positions are priced, every price is the price of a schedule
\* of floor(years_to_maturity) annual coupons paid at the whole years 1..N
\* plus the principal at maturity, for a maturity of a year or more; for a
\* maturity under a year it is the discounted principal alone, no coupon in it.
CouponCountIsWholeYears ==
    Past("price") =>
      \A i \in Rows :
        LET y == df["years_to_maturity"][i]
        IN  /\ y >= 100 =>
                 df["price_per_bond"][i] = PriceOfSchedule(bonds[i], y, y \div 100)
            /\ y < 100 =>
                 /\ df["price_per_bond"][i] = PriceOfSchedule(bonds[i], y, 0)
                 /\ bonds[i].ytm = 0 =>
                      df["price_per_bond"][i] = 100 * bonds[i].face_value

\* C11 witness: a priced 5% bond half a year from maturity whose price is its
\* face value alone.
CouponCountWitness ==
    /\ Past("price")
    /\ df["years_to_maturity"][1] = 50
    /\ df["coupon_rate"][1] = 500
    /\ df["price_per_bond"][1] = 100 * df["face_value"][1]

\* C12: once the durations are computed, for every position, whatever the
\* sign of its years to maturity, the coupon count of its price is at most the
\* period count of its duration and at least that count less one; the price
\* and, at a zero yield, the duration are those of schedules of these lengths.
PeriodCountsWithinOne ==
    Past("durations") =>
      \A i \in Rows :
        LET y   == df["years_to_maturity"][i]
            n   == CouponPeriods(y)
            m   == DurationPeriods(y)
            cpn == bonds[i].coupon_rate * bonds[i].face_value
            par == bonds[i].face_value * 10000
        IN  /\ n <= m
            /\ m - n <= 1
            /\ df["price_per_bond"][i] = PriceOfSchedule(bonds[i], y, n)
            /\ bonds[i].ytm = 0 =>
                 df["macaulay_duration"][i]
                   = RoundHalfEven(cpn * ((m * (m + 1)) \div 2) + par * m,
                                   cpn * m + par, 4)

\* C12 witness: a position a year and a half past its maturity date, priced
\* with no coupon and given a duration over one period.
PeriodCountsWitness ==
    /\ Past("durations")
    /\ df["years_to_maturity"][1] = -150
    /\ CouponPeriods(df["years_to_maturity"][1]) = 0
    /\ DurationPeriods(df["years_to_maturity"][1]) = 1
    /\ df["price_per_bond"][1] = 100
    /\ df["macaulay_duration"][1] = 10000

====
